---- MODULE Spec2Model ----
(***************************************************************************)
(* A model of the anchorhash crate: the Anchor state machine (anchor.rs),  *)
(* the resource binding AnchorHash and its Builder (anchor_hash.rs), and   *)
(* the two helpers the lookup uses, range_map and fasthash.                *)
(*                                                                         *)
(* Unsigned machine words wider than 16 bits are kept as little-endian     *)
(* sequences of 16-bit limbs (a u32 is <<lo, hi>>, a u64 has four limbs),  *)
(* so that every intermediate value stays inside TLC's integers while the  *)
(* arithmetic keeps the width the code has.                                *)
(***************************************************************************)
EXTENDS Integers, Sequences, FiniteSets, TLC

\* ------------------------------------------------------------------ bounds
\* The largest capacity a binding is built with.
MaxCap == 4
\* Resources are the values 1..MaxRes; equal numbers are equal resources.
MaxRes == 2
\* The number of key digests the lookups are checked for.
NumKeys == 8
\* The number of successful mutations a counted run performs.
MaxOps == 5
\* The successful calls made after a clone, on the original and the clone together.
MaxCloneOps == 2
\* range_map is called on the u32 values whose 16-bit halves lie within
\* EdgeWidth of 0, of 2^15 or of 2^16 - 1.
EdgeWidth == 1

Resources == 1..MaxRes

\* ------------------------------------------------------- machine arithmetic
Limb == 2^16

\* Bit i of x exclusive-or bit i of y, in place.
XorBit(x, y, i) == (((x \div 2^i) + (y \div 2^i)) % 2) * 2^i

\* Bitwise exclusive or of two 16-bit values.
BitXor(x, y) ==
    XorBit(x, y, 0) + XorBit(x, y, 1) + XorBit(x, y, 2) + XorBit(x, y, 3)
    + XorBit(x, y, 4) + XorBit(x, y, 5) + XorBit(x, y, 6) + XorBit(x, y, 7)
    + XorBit(x, y, 8) + XorBit(x, y, 9) + XorBit(x, y, 10) + XorBit(x, y, 11)
    + XorBit(x, y, 12) + XorBit(x, y, 13) + XorBit(x, y, 14) + XorBit(x, y, 15)

\* A small natural number as a u32.
U32(n) == <<n % Limb, n \div Limb>>

\* `x as u32` for a u64 x: the low two limbs.
TruncU32(x) == <<x[1], x[2]>>

\* ------------------------------------------------------------- range_map
\* range_map on targets with the fastmod feature: ((v as u64 * max as u64) >> 32).
\* max is a bucket count of the model (max < 2^15), v a u32.
range_map_fast(v, max) ==
    (v[2] * max + ((v[1] * max) \div Limb)) \div Limb

\* range_map on the other targets: v % max.
range_map_mod(v, max) ==
    (((v[2] % max) * (Limb % max)) + (v[1] % max)) % max

range_map(fastmod, v, max) ==
    IF fastmod THEN range_map_fast(v, max) ELSE range_map_mod(v, max)

\* The same two functions for every u32 max, in 16-bit limbs so that no
\* intermediate value leaves the range of the model's integers.

\* a * b for a, b < 2^16, as <<low limb, high limb>>.
MulLimb(a, b) ==
    LET p1 == a * (b \div 256)
        s  == a * (b % 256) + (p1 % 256) * 256
    IN  <<s % Limb, (p1 \div 256) + (s \div Limb)>>

\* v as u64 * max as u64: the four limbs of the product, and the carry out of
\* the fourth (the part of the product that does not fit 64 bits).
MulU32(v, max) ==
    LET p11 == MulLimb(v[1], max[1])
        p12 == MulLimb(v[1], max[2])
        p21 == MulLimb(v[2], max[1])
        p22 == MulLimb(v[2], max[2])
        t1  == p11[2] + p12[1] + p21[1]
        t2  == p12[2] + p21[2] + p22[1] + (t1 \div Limb)
        t3  == p22[2] + (t2 \div Limb)
    IN  [limbs |-> <<p11[1], t1 % Limb, t2 % Limb, t3 % Limb>>,
         carry |-> t3 \div Limb]

\* Faulty variant of the fastmod range_map: it shifts by 16, not 32.
range_map_fast_shift16(v, max) ==
    LET p == MulU32(v, max).limbs IN <<p[2], p[3]>>

\* ((v as u64 * max as u64) >> 32) as u32
range_map_fast_u32(v, max) ==
    LET p == MulU32(v, max).limbs IN <<p[3], p[4]>>

\* Comparison and subtraction of two-limb numbers (a >= b where subtracted).
GeU32(a, b) == a[2] > b[2] \/ (a[2] = b[2] /\ a[1] >= b[1])
SubU32(a, b) ==
    IF a[1] >= b[1]
    THEN <<a[1] - b[1], a[2] - b[2]>>
    ELSE <<a[1] + Limb - b[1], a[2] - b[2] - 1>>

\* Bit i of the u32 v.
BitOf(v, i) ==
    IF i < 16 THEN (v[1] \div 2^i) % 2 ELSE (v[2] \div 2^(i - 16)) % 2

\* v % max by long division: from bit i of v down, r the remainder so far.
RECURSIVE ModBits(_, _, _, _)
ModBits(r, v, max, i) ==
    IF i < 0
    THEN r
    ELSE LET lo == 2 * r[1] + BitOf(v, i)
             r2 == <<lo % Limb, 2 * r[2] + (lo \div Limb)>>
         IN  IF GeU32(r2, max)
             THEN ModBits(SubU32(r2, max), v, max, i - 1)
             ELSE ModBits(r2, v, max, i - 1)

\* v % max, for max > 0
range_map_mod_u32(v, max) == ModBits(<<0, 0>>, v, max, 31)

\* What a call range_map(v, max) can do. With max = 0 the modulo variant
\* divides by zero; the fastmod variant fails its debug assertion, or without
\* debug assertions returns 0.
range_map_u32(fastmod, v, max) ==
    IF max = <<0, 0>>
    THEN IF fastmod THEN {"Panic", <<0, 0>>} ELSE {"Panic"}
    ELSE IF fastmod
    THEN {range_map_fast_u32(v, max)}
    ELSE {range_map_mod_u32(v, max)}

\* -------------------------------------------------------------- fasthash
\* n steps of the CRC32C register: shift right, and fold the reflected
\* polynomial 0x82F63B78 in when the bit shifted out was set.
RECURSIVE Crc32cRounds(_, _)
Crc32cRounds(c, n) ==
    IF n = 0
    THEN c
    ELSE LET lo == (c[1] \div 2) + (c[2] % 2) * 32768
             hi == c[2] \div 2
         IN  IF c[1] % 2 = 1
             THEN Crc32cRounds(<<BitXor(lo, 15224), BitXor(hi, 33526)>>, n - 1)
             ELSE Crc32cRounds(<<lo, hi>>, n - 1)

\* _mm_crc32_u32(crc, v): accumulate the 32 bits of v into crc.
mm_crc32_u32(crc, v) ==
    Crc32cRounds(<<BitXor(crc[1], v[1]), BitXor(crc[2], v[2])>>, 32)

\* fasthash with the simd feature on x86_64 with SSE4.2.
fasthash_simd(k, seed) == mm_crc32_u32(seed, k)

\* u64 wrapping multiplication by the FNV prime 0x100000001b3
\* (limbs 0x01b3, 0x0000, 0x0100, 0x0000).
FnvMul(s) ==
    LET p0 == s[1] * 435
        p1 == s[2] * 435 + (p0 \div Limb)
        p2 == s[3] * 435 + s[1] * 256 + (p1 \div Limb)
        p3 == s[4] * 435 + s[2] * 256 + (p2 \div Limb)
    IN  <<p0 % Limb, p1 % Limb, p2 % Limb, p3 % Limb>>

\* FnvHasher::write of one byte: xor it into the state, multiply by the prime.
FnvWriteByte(s, byte) ==
    FnvMul(<<BitXor(s[1], byte), s[2], s[3], s[4]>>)

\* The bytes of a u32 in native (little-endian) order.
NeBytes(k) == <<k[1] % 256, k[1] \div 256, k[2] % 256, k[2] \div 256>>

\* fasthash without simd: FnvHasher::with_key(seed), write_u32(k), finish() as u32.
fasthash_fnv(k, seed) ==
    LET b  == NeBytes(k)
        s0 == <<seed[1], seed[2], 0, 0>>
        s1 == FnvWriteByte(s0, b[1])
        s2 == FnvWriteByte(s1, b[2])
        s3 == FnvWriteByte(s2, b[3])
        s4 == FnvWriteByte(s3, b[4])
    IN  TruncU32(s4)

fasthash(simd, k, seed) ==
    IF simd THEN fasthash_simd(k, seed) ELSE fasthash_fnv(k, seed)

\* ------------------------------------------------------------------ keys
\* The key digests looked up: what the caller's hasher returns from finish(),
\* a u64. Digest i has the low 32 bits i * 0x9E3779B1 mod 2^32, which spreads
\* the digests over the u32 range, and i in the bits the lookup discards.
KeyDigest(i) ==
    LET p0 == i * 31153
        p1 == i * 40503 + (p0 \div Limb)
    IN  <<p0 % Limb, p1 % Limb, i, 0>>

Keys == {KeyDigest(i) : i \in 0..(NumKeys - 1)}

\* fasthash of one build, tabulated over the arguments get_bucket can pass it
\* in the model: the bucket ids and the truncated key digests.
fasthash_table(sd) ==
    [x \in (0..MaxCap) \X {TruncU32(d) : d \in Keys} |->
        fasthash(sd, U32(x[1]), x[2])] @@ <<>>

\* ---------------------------------------------------------------- Anchor
None == [some |-> FALSE]
Some(v) == [some |-> TRUE, val |-> v]

\* Faulty variant of Anchor::new: R is collected without .rev(), so that its
\* top is capacity - 1.
Anchor_new_ascending_R(capacity, working) ==
    [ capacity |-> capacity,
      A |-> [b \in 0..(capacity - 1) |-> IF b < working THEN 0 ELSE b],
      R |-> [i \in 1..(capacity - working) |-> working + i - 1],
      N |-> working,
      K |-> [b \in 0..(capacity - 1) |-> b],
      L |-> [b \in 0..(capacity - 1) |-> b],
      W |-> [b \in 0..(capacity - 1) |-> b] ]

\* Anchor::new(capacity, working), for working <= capacity.
Anchor_new(capacity, working) ==
    [ capacity |-> capacity,
      A |-> [b \in 0..(capacity - 1) |-> IF b < working THEN 0 ELSE b],
      R |-> [i \in 1..(capacity - working) |-> capacity - i],
      N |-> working,
      K |-> [b \in 0..(capacity - 1) |-> b],
      L |-> [b \in 0..(capacity - 1) |-> b],
      W |-> [b \in 0..(capacity - 1) |-> b] ]

\* The inner loop of get_bucket: while A[h] >= A[b] { remapped = true; h = K[h] }.
\* Ab is A[b]. A walk of more than `left` steps from the start has visited a
\* bucket twice and never ends: the result is then tagged Diverges.
RECURSIVE get_bucket_walk(_, _, _, _, _)
get_bucket_walk(a, h, Ab, remapped, left) ==
    IF a.A[h] >= Ab
    THEN IF left = 0
         THEN [tag |-> "Diverges"]
         ELSE get_bucket_walk(a, a.K[h], Ab, TRUE, left - 1)
    ELSE [tag |-> "Found", h |-> h, remapped |-> remapped]

\* The outer loop of get_bucket: while A[b] > 0 { ... b = h }.
RECURSIVE get_bucket_loop(_, _, _, _, _, _)
get_bucket_loop(hash, fastmod, a, k, b, remapped) ==
    IF a.A[b] > 0
    THEN LET bs == hash[<<b, k>>]
             h  == range_map(fastmod, bs, a.A[b])
             w  == get_bucket_walk(a, h, a.A[b], remapped, a.capacity)
         IN  IF w.tag = "Diverges"
             THEN [tag |-> "Diverges"]
             ELSE get_bucket_loop(hash, fastmod, a, k, w.h, w.remapped)
    ELSE [tag |-> IF remapped THEN "Remapped" ELSE "Original", id |-> b]

\* Faulty variant of get_bucket: it returns the key's first slot and never
\* follows the removed buckets.
get_bucket_first_slot(hash, fastmod, a, k) ==
    IF a.capacity = 0
    THEN [tag |-> "Panic"]
    ELSE [tag |-> "Original", id |-> range_map(fastmod, k, a.capacity)]

\* Faulty variant of get_bucket: it reports Remapped whenever the key's first
\* slot is a removed bucket, whether or not the inner loop ran.
get_bucket_remapped_if_removed(hash, fastmod, a, k) ==
    IF a.capacity = 0
    THEN [tag |-> "Panic"]
    ELSE LET b   == range_map(fastmod, k, a.capacity)
             got == get_bucket_loop(hash, fastmod, a, k, b, FALSE)
         IN  IF got.tag = "Diverges"
             THEN got
             ELSE [tag |-> IF a.A[b] > 0 THEN "Remapped" ELSE "Original",
                   id |-> got.id]

\* Anchor::get_bucket(k). With capacity = 0 every build aborts before the
\* loop: range_map's debug assertion or division by zero, or the index A[0].
get_bucket(hash, fastmod, a, k) ==
    IF a.capacity = 0
    THEN [tag |-> "Panic"]
    ELSE get_bucket_loop(hash, fastmod, a, k,
                         range_map(fastmod, k, a.capacity), FALSE)

\* Faulty variant of add_bucket: it marks bucket N, not the popped bucket b, as
\* working in A.
add_bucket_marks_N(a) ==
    IF a.R = <<>>
    THEN [panic |-> FALSE, anchor |-> a, ret |-> None]
    ELSE IF a.N >= a.capacity
    THEN [panic |-> TRUE]
    ELSE LET b  == a.R[Len(a.R)]
             L1 == [a.L EXCEPT ![a.W[a.N]] = a.N]
         IN  [ panic  |-> FALSE,
               anchor |-> [ capacity |-> a.capacity,
                            A |-> [a.A EXCEPT ![a.N] = 0],
                            R |-> SubSeq(a.R, 1, Len(a.R) - 1),
                            N |-> a.N + 1,
                            W |-> [a.W EXCEPT ![L1[b]] = b],
                            K |-> [a.K EXCEPT ![b] = b],
                            L |-> L1 ],
               ret    |-> Some(b) ]

\* Faulty variant of add_bucket: it takes the oldest removed bucket, the
\* bottom of R, and not the newest.
add_bucket_oldest(a) ==
    IF a.R = <<>>
    THEN [panic |-> FALSE, anchor |-> a, ret |-> None]
    ELSE IF a.N >= a.capacity
    THEN [panic |-> TRUE]
    ELSE LET b  == a.R[1]
             L1 == [a.L EXCEPT ![a.W[a.N]] = a.N]
         IN  [ panic  |-> FALSE,
               anchor |-> [ capacity |-> a.capacity,
                            A |-> [a.A EXCEPT ![b] = 0],
                            R |-> Tail(a.R),
                            N |-> a.N + 1,
                            W |-> [a.W EXCEPT ![L1[b]] = b],
                            K |-> [a.K EXCEPT ![b] = b],
                            L |-> L1 ],
               ret    |-> Some(b) ]

\* Faulty variant of add_bucket: it reads the top of R and leaves it on the
\* stack.
add_bucket_peeks(a) ==
    IF a.R = <<>>
    THEN [panic |-> FALSE, anchor |-> a, ret |-> None]
    ELSE IF a.N >= a.capacity
    THEN [panic |-> TRUE]
    ELSE LET b  == a.R[Len(a.R)]
             L1 == [a.L EXCEPT ![a.W[a.N]] = a.N]
         IN  [ panic  |-> FALSE,
               anchor |-> [ capacity |-> a.capacity,
                            A |-> [a.A EXCEPT ![b] = 0],
                            R |-> a.R,
                            N |-> a.N + 1,
                            W |-> [a.W EXCEPT ![L1[b]] = b],
                            K |-> [a.K EXCEPT ![b] = b],
                            L |-> L1 ],
               ret    |-> Some(b) ]

\* Faulty variant of add_bucket: it leaves out L[W[N]] = N, so that the bucket
\* at W[N] keeps the L a removal gave it.
add_bucket_keeps_L(a) ==
    IF a.R = <<>>
    THEN [panic |-> FALSE, anchor |-> a, ret |-> None]
    ELSE IF a.N >= a.capacity
    THEN [panic |-> TRUE]
    ELSE LET b == a.R[Len(a.R)]
         IN  [ panic  |-> FALSE,
               anchor |-> [ capacity |-> a.capacity,
                            A |-> [a.A EXCEPT ![b] = 0],
                            R |-> SubSeq(a.R, 1, Len(a.R) - 1),
                            N |-> a.N + 1,
                            W |-> [a.W EXCEPT ![a.L[b]] = b],
                            K |-> [a.K EXCEPT ![b] = b],
                            L |-> a.L ],
               ret    |-> Some(b) ]

\* Anchor::add_bucket(): [panic, anchor, ret], ret the Option<u16> returned.
add_bucket(a) ==
    IF a.R = <<>>
    THEN [panic |-> FALSE, anchor |-> a, ret |-> None]
    ELSE IF a.N >= a.capacity
    THEN [panic |-> TRUE]
    ELSE LET b  == a.R[Len(a.R)]
             A1 == [a.A EXCEPT ![b] = 0]
             L1 == [a.L EXCEPT ![a.W[a.N]] = a.N]
             W1 == [a.W EXCEPT ![L1[b]] = b]
             K1 == [a.K EXCEPT ![b] = b]
         IN  [ panic  |-> FALSE,
               anchor |-> [ capacity |-> a.capacity,
                            A |-> A1,
                            R |-> SubSeq(a.R, 1, Len(a.R) - 1),
                            N |-> a.N + 1,
                            W |-> W1,
                            K |-> K1,
                            L |-> L1 ],
               ret    |-> Some(b) ]

\* Faulty variant of remove_bucket: it takes the last working bucket, W[N-1],
\* out of A and K, whichever bucket it was given.
remove_bucket_last(a, b) ==
    IF b >= a.capacity \/ a.A[b] # 0 \/ a.N = 0
    THEN [panic |-> TRUE]
    ELSE LET N1 == a.N - 1
             c  == a.W[N1]
             W1 == [a.W EXCEPT ![a.L[b]] = a.W[N1]]
         IN  [ panic  |-> FALSE,
               anchor |-> [ capacity |-> a.capacity,
                            A |-> [a.A EXCEPT ![c] = N1],
                            R |-> Append(a.R, b),
                            N |-> N1,
                            W |-> W1,
                            K |-> [a.K EXCEPT ![c] = W1[N1]],
                            L |-> [a.L EXCEPT ![W1[N1]] = a.L[b]] ] ]

\* Faulty variant of remove_bucket: it leaves A[b] at 0.
remove_bucket_keeps_A(a, b) ==
    IF b >= a.capacity \/ a.A[b] # 0 \/ a.N = 0
    THEN [panic |-> TRUE]
    ELSE LET N1 == a.N - 1
             W1 == [a.W EXCEPT ![a.L[b]] = a.W[N1]]
         IN  [ panic  |-> FALSE,
               anchor |-> [ capacity |-> a.capacity,
                            A |-> a.A,
                            R |-> Append(a.R, b),
                            N |-> N1,
                            W |-> W1,
                            K |-> [a.K EXCEPT ![b] = W1[N1]],
                            L |-> [a.L EXCEPT ![W1[N1]] = a.L[b]] ] ]

\* Faulty variant of remove_bucket: it leaves K[b] at b, so that b is its own
\* successor.
remove_bucket_keeps_K(a, b) ==
    IF b >= a.capacity \/ a.A[b] # 0 \/ a.N = 0
    THEN [panic |-> TRUE]
    ELSE LET N1 == a.N - 1
             W1 == [a.W EXCEPT ![a.L[b]] = a.W[N1]]
         IN  [ panic  |-> FALSE,
               anchor |-> [ capacity |-> a.capacity,
                            A |-> [a.A EXCEPT ![b] = N1],
                            R |-> Append(a.R, b),
                            N |-> N1,
                            W |-> W1,
                            K |-> a.K,
                            L |-> [a.L EXCEPT ![W1[N1]] = a.L[b]] ] ]

\* Faulty variant of remove_bucket: it records the removed bucket at the
\* bottom of R and not on top.
remove_bucket_under(a, b) ==
    IF b >= a.capacity \/ a.A[b] # 0 \/ a.N = 0
    THEN [panic |-> TRUE]
    ELSE LET N1 == a.N - 1
             W1 == [a.W EXCEPT ![a.L[b]] = a.W[N1]]
         IN  [ panic  |-> FALSE,
               anchor |-> [ capacity |-> a.capacity,
                            A |-> [a.A EXCEPT ![b] = N1],
                            R |-> <<b>> \o a.R,
                            N |-> N1,
                            W |-> W1,
                            K |-> [a.K EXCEPT ![b] = W1[N1]],
                            L |-> [a.L EXCEPT ![W1[N1]] = a.L[b]] ] ]

\* Faulty variant of remove_bucket: it writes A[b] before it decrements N, so
\* that A[b] holds the number of working buckets before the removal.
remove_bucket_old_N(a, b) ==
    IF b >= a.capacity \/ a.A[b] # 0 \/ a.N = 0
    THEN [panic |-> TRUE]
    ELSE LET N1 == a.N - 1
             W1 == [a.W EXCEPT ![a.L[b]] = a.W[N1]]
         IN  [ panic  |-> FALSE,
               anchor |-> [ capacity |-> a.capacity,
                            A |-> [a.A EXCEPT ![b] = a.N],
                            R |-> Append(a.R, b),
                            N |-> N1,
                            W |-> W1,
                            K |-> [a.K EXCEPT ![b] = W1[N1]],
                            L |-> [a.L EXCEPT ![W1[N1]] = a.L[b]] ] ]

\* Faulty variant of remove_bucket: it leaves out the last assignment,
\* L[W[N]] = L[b], so that the bucket moved into b's place keeps its old L.
remove_bucket_keeps_L(a, b) ==
    IF b >= a.capacity \/ a.A[b] # 0 \/ a.N = 0
    THEN [panic |-> TRUE]
    ELSE LET N1 == a.N - 1
             W1 == [a.W EXCEPT ![a.L[b]] = a.W[N1]]
         IN  [ panic  |-> FALSE,
               anchor |-> [ capacity |-> a.capacity,
                            A |-> [a.A EXCEPT ![b] = N1],
                            R |-> Append(a.R, b),
                            N |-> N1,
                            W |-> W1,
                            K |-> [a.K EXCEPT ![b] = W1[N1]],
                            L |-> a.L ] ]

\* Faulty variant of remove_bucket: it has no assertion that A[b] is 0.
remove_bucket_unchecked(a, b) ==
    IF b >= a.capacity \/ a.N = 0
    THEN [panic |-> TRUE]
    ELSE LET N1 == a.N - 1
             W1 == [a.W EXCEPT ![a.L[b]] = a.W[N1]]
         IN  [ panic  |-> FALSE,
               anchor |-> [ capacity |-> a.capacity,
                            A |-> [a.A EXCEPT ![b] = N1],
                            R |-> Append(a.R, b),
                            N |-> N1,
                            W |-> W1,
                            K |-> [a.K EXCEPT ![b] = W1[N1]],
                            L |-> [a.L EXCEPT ![W1[N1]] = a.L[b]] ] ]

\* Anchor::remove_bucket(b): [panic, anchor]. The assertion A[b] == 0 aborts for
\* a removed bucket, the index A[b] for b >= capacity, and N -= 1 at N = 0
\* (an overflow abort, or after wrapping the index W[65535]).
remove_bucket(a, b) ==
    IF b >= a.capacity \/ a.A[b] # 0 \/ a.N = 0
    THEN [panic |-> TRUE]
    ELSE LET R1 == Append(a.R, b)
             N1 == a.N - 1
             A1 == [a.A EXCEPT ![b] = N1]
             W1 == [a.W EXCEPT ![a.L[b]] = a.W[N1]]
             K1 == [a.K EXCEPT ![b] = W1[N1]]
             L1 == [a.L EXCEPT ![W1[N1]] = a.L[b]]
         IN  [ panic  |-> FALSE,
               anchor |-> [ capacity |-> a.capacity,
                            A |-> A1, R |-> R1, N |-> N1,
                            W |-> W1, K |-> K1, L |-> L1 ] ]

\* ------------------------------------------------------------ AnchorHash
\* The binding: its Anchor, its HashMap<u16, R> `resources` (a function from
\* the bound buckets to their resources), the outcome of the last call, and
\* whether a call has aborted the program. The crate's features (and target)
\* fix the build: fasthash_of is the fasthash it has (simd or not), as a table,
\* and fastmod says which range_map.
VARIABLES anchor, resources, lastOp, panicked, fasthash_of, fastmod
\* Bookkeeping of the runs that count, replay or mirror the calls:
\*   counts  the initial resources and the successful adds and removes;
\*   saved   the binding as it was before a two-call round trip, and
\*   trip    how far the round trip has come;
\*   twin    a second binding built the same way and driven by the same calls;
\*   removals  the buckets that lost their resource and have not got one since,
\*           oldest first.
VARIABLES counts, saved, trip, twin, removals

binding == <<anchor, resources>>
build_flags == <<fasthash_of, fastmod>>
ghosts == <<counts, saved, trip, twin, removals>>
vars == <<anchor, resources, lastOp, panicked, fasthash_of, fastmod, counts, saved, trip, twin,
          removals>>

EmptyMap == [b \in {} |-> 0]

\* Faulty variant of HashMap::remove: the entry stays.
MapRemove_keeps(m, b) == m

\* HashMap::insert(b, r) on a map without b, and HashMap::remove(&b).
MapInsert(m, b, r) == [x \in (DOMAIN m) \cup {b} |-> IF x = b THEN r ELSE m[x]]
MapRemove(m, b) == [x \in (DOMAIN m) \ {b} |-> m[x]]

\* AnchorHash::get_resource(key): hash the key (key is the digest), truncate
\* it to u32, resolve the bucket, and look the bucket up in the map.
get_resource(hash, fm, a, res, key) ==
    LET b == get_bucket(hash, fm, a, TruncU32(key))
    IN  IF b.tag \in {"Panic", "Diverges"}
        THEN [tag |-> b.tag]
        ELSE IF b.id \in DOMAIN res
        THEN [tag |-> "Some", val |-> res[b.id]]
        ELSE [tag |-> "None"]

\* Faulty variant of add_resource: it refuses the last free bucket too.
add_resource_one_short(a, res, r) ==
    LET o == add_bucket(a)
    IN  IF o.panic
        THEN [panic |-> TRUE]
        ELSE IF ~o.ret.some \/ Len(a.R) = 1
        THEN [panic |-> FALSE, anchor |-> a, resources |-> res,
              ret |-> "CapacityLimitReached"]
        ELSE [panic |-> FALSE, anchor |-> o.anchor,
              resources |-> MapInsert(res, o.ret.val, r), ret |-> "Ok"]

\* Whether get_resource, called on a binding with anchor a and map res, reaches
\* its call of Anchor::get_bucket: it always does, no condition precedes the call.
get_resource_calls_get_bucket(a, res) == TRUE

\* AnchorHash::add_resource(resource): [panic, anchor, resources, ret].
add_resource(a, res, r) ==
    LET o == add_bucket(a)
    IN  IF o.panic
        THEN [panic |-> TRUE]
        ELSE IF ~o.ret.some
        THEN [panic |-> FALSE, anchor |-> a, resources |-> res,
              ret |-> "CapacityLimitReached"]
        ELSE IF o.ret.val \in DOMAIN res
        THEN [panic |-> TRUE]
        ELSE [panic |-> FALSE, anchor |-> o.anchor,
              resources |-> MapInsert(res, o.ret.val, r), ret |-> "Ok"]

\* Faulty variant of the search in remove_resource: it compares the bucket,
\* not the resource bound to it.
find_resource_by_bucket(res, r) == {b \in DOMAIN res : b = r}

\* The buckets resources.iter().find(|(_k, r)| *r == resource) can return: the
\* map iterates in an arbitrary order, so any bucket bound to an equal resource.
find_resource(res, r) == {b \in DOMAIN res : res[b] = r}

\* Faulty variant of remove_resource: it drops the entry of the map and leaves
\* the bucket working in the anchor.
remove_resource_keeps_bucket(a, res, b) ==
    [panic |-> FALSE, anchor |-> a, resources |-> MapRemove(res, b), ret |-> "Ok"]

\* AnchorHash::remove_resource(&resource) when find returned bucket b.
remove_resource_found(a, res, b) ==
    LET o == remove_bucket(a, b)
    IN  IF o.panic
        THEN [panic |-> TRUE]
        ELSE [panic |-> FALSE, anchor |-> o.anchor,
              resources |-> MapRemove(res, b), ret |-> "Ok"]

\* AnchorHash::remove_resource(&resource): the set of its possible outcomes.
remove_resource(a, res, r) ==
    IF find_resource(res, r) = {}
    THEN {[panic |-> FALSE, anchor |-> a, resources |-> res,
           ret |-> "ResourceNotFound"]}
    ELSE {remove_resource_found(a, res, b) : b \in find_resource(res, r)}

\* Faulty variant of the loop of build: resources that find no bucket are
\* dropped.
RECURSIVE build_from_dropping(_, _, _)
build_from_dropping(a, res, init) ==
    IF init = <<>> \/ a.R = <<>>
    THEN [panic |-> FALSE, anchor |-> a, resources |-> res]
    ELSE LET o == add_bucket(a)
         IN  build_from_dropping(o.anchor, MapInsert(res, o.ret.val, Head(init)),
                                 Tail(init))

\* Builder::build(capacity) with the resources `init` given to with_resources:
\* add_bucket and insert for each, aborting on the first that finds no bucket.
RECURSIVE build_from(_, _, _)
build_from(a, res, init) ==
    IF init = <<>>
    THEN [panic |-> FALSE, anchor |-> a, resources |-> res]
    ELSE LET o == add_bucket(a)
         IN  IF o.panic \/ ~o.ret.some
             THEN [panic |-> TRUE]
             ELSE build_from(o.anchor, MapInsert(res, o.ret.val, Head(init)),
                             Tail(init))

\* Faulty variant of build: it takes the resources last to first.
build_last_first(capacity, init) ==
    build_from(Anchor_new(capacity, 0), EmptyMap,
               [i \in 1..Len(init) |-> init[Len(init) + 1 - i]])

build(capacity, init) == build_from(Anchor_new(capacity, 0), EmptyMap, init)

\* resources().len()
resources_len(res) == Cardinality(DOMAIN res)

\* -------------------------------------------------------------- the runs
SeqsUpTo(S, n) == UNION {[1..m -> S] : m \in 0..n}

\* The state a build leaves: any capacity up to MaxCap, any initial resources
\* (one more than the capacity aborts the build), any feature set.
Built(capacity, init) ==
    LET o == build(capacity, init)
    IN  /\ panicked = o.panic
        /\ anchor = IF o.panic THEN Anchor_new(capacity, 0) ELSE o.anchor
        /\ resources = IF o.panic THEN EmptyMap ELSE o.resources
        /\ lastOp = [op |-> "build", arg |-> init,
                     ret |-> IF o.panic THEN "Panic" ELSE "Ok"]

InitBinding ==
    /\ \E simd \in BOOLEAN : fasthash_of = fasthash_table(simd)
    /\ fastmod \in BOOLEAN
    /\ \E capacity \in 0..MaxCap :
         \E init \in SeqsUpTo(Resources, capacity + 1) : Built(capacity, init)

NoCounts == counts = [initial |-> 0, added |-> 0, removed |-> 0]
NoTrip ==
    /\ saved = [anchor |-> Anchor_new(0, 0), resources |-> EmptyMap]
    /\ trip = <<>>
NoTwin ==
    twin = [anchor |-> Anchor_new(0, 0), resources |-> EmptyMap, panicked |-> FALSE]

NoRemovals == removals = <<>>

Init == InitBinding /\ NoCounts /\ NoTrip /\ NoTwin /\ NoRemovals

\* A call's outcome o becomes the state.
Becomes(o, op, arg) ==
    IF o.panic
    THEN /\ panicked' = TRUE
         /\ lastOp' = [op |-> op, arg |-> arg, ret |-> "Panic"]
         /\ UNCHANGED binding
    ELSE /\ anchor' = o.anchor
         /\ resources' = o.resources
         /\ lastOp' = [op |-> op, arg |-> arg, ret |-> o.ret]
         /\ UNCHANGED panicked

DoAddResource(r) ==
    /\ ~panicked
    /\ Becomes(add_resource(anchor, resources, r), "add_resource", r)
    /\ UNCHANGED build_flags

DoRemoveResource(r) ==
    /\ ~panicked
    /\ \E o \in remove_resource(anchor, resources, r) :
         Becomes(o, "remove_resource", r)
    /\ UNCHANGED build_flags

\* get_resource reads the binding and returns; it changes nothing unless it aborts.
DoGetResource(key) ==
    /\ ~panicked
    /\ LET got == get_resource(fasthash_of, fastmod, anchor, resources, key)
       IN  /\ panicked' = (got.tag = "Panic")
           /\ lastOp' = [op |-> "get_resource", arg |-> key, ret |-> got]
    /\ UNCHANGED <<binding, build_flags>>

AddResource == \E r \in Resources : DoAddResource(r) /\ UNCHANGED ghosts
RemoveResource == \E r \in Resources : DoRemoveResource(r) /\ UNCHANGED ghosts
GetResource == \E key \in Keys : DoGetResource(key) /\ UNCHANGED ghosts

Next == AddResource \/ RemoveResource \/ GetResource

Spec == Init /\ [][Next]_vars

\* ---- counted runs: the calls, and a count of those that succeeded
InitCount ==
    /\ InitBinding
    /\ counts = [initial |-> IF panicked THEN 0 ELSE Len(lastOp.arg),
                 added |-> 0, removed |-> 0]
    /\ NoTrip /\ NoTwin /\ NoRemovals

Counted(field) ==
    /\ counts.added + counts.removed < MaxOps
    /\ counts' = IF lastOp'.ret = "Ok"
                 THEN [counts EXCEPT ![field] = @ + 1]
                 ELSE counts
    /\ UNCHANGED <<saved, trip, twin, removals>>

CountedAdd == \E r \in Resources : DoAddResource(r) /\ Counted("added")
CountedRemove == \E r \in Resources : DoRemoveResource(r) /\ Counted("removed")

NextCount == CountedAdd \/ CountedRemove

SpecCount == InitCount /\ [][NextCount]_vars

\* ---- round trips: any calls, then one call and the call that undoes it
Snapshot == [anchor |-> anchor, resources |-> resources]

TripFreeAdd ==
    trip = <<>> /\ \E r \in Resources : DoAddResource(r) /\ UNCHANGED ghosts
TripFreeRemove ==
    trip = <<>> /\ \E r \in Resources : DoRemoveResource(r) /\ UNCHANGED ghosts

TripBegin(call) ==
    /\ trip = <<>>
    /\ call
    /\ saved' = Snapshot
    /\ trip' = <<lastOp'>>
    /\ UNCHANGED <<counts, twin, removals>>

TripFinish(call) ==
    /\ call
    /\ trip' = Append(trip, lastOp')
    /\ UNCHANGED <<counts, saved, twin, removals>>

TripRemove == \E r \in Resources : TripBegin(DoRemoveResource(r))
TripAdd == \E r \in Resources : TripBegin(DoAddResource(r))
TripReAdd ==
    /\ Len(trip) = 1 /\ trip[1].op = "remove_resource"
    /\ TripFinish(DoAddResource(trip[1].arg))
TripUnAdd ==
    /\ Len(trip) = 1 /\ trip[1].op = "add_resource"
    /\ TripFinish(DoRemoveResource(trip[1].arg))

NextTrip ==
    \/ TripFreeAdd \/ TripFreeRemove
    \/ TripRemove \/ TripAdd \/ TripReAdd \/ TripUnAdd

SpecTrip == Init /\ [][NextTrip]_vars

\* ---- twins: two bindings built alike, each call made on both
InitTwin ==
    /\ InitBinding
    /\ NoCounts /\ NoTrip /\ NoRemovals
    /\ twin = [anchor |-> anchor, resources |-> resources, panicked |-> panicked]

TwinBecomes(o) ==
    twin' = IF o.panic
            THEN [twin EXCEPT !.panicked = TRUE]
            ELSE [anchor |-> o.anchor, resources |-> o.resources,
                  panicked |-> FALSE]

TwinAdd ==
    \E r \in Resources :
        /\ DoAddResource(r)
        /\ TwinBecomes(add_resource(twin.anchor, twin.resources, r))
        /\ UNCHANGED <<counts, saved, trip, removals>>

TwinRemove ==
    \E r \in Resources :
        /\ DoRemoveResource(r)
        /\ \E o \in remove_resource(twin.anchor, twin.resources, r) : TwinBecomes(o)
        /\ UNCHANGED <<counts, saved, trip, removals>>

NextTwin == TwinAdd \/ TwinRemove

SpecTwin == InitTwin /\ [][NextTwin]_vars

\* ---- clones: any calls, then a clone, then calls on the original or the clone
\* Faulty variant of clone: the clone gets the anchor but an empty map.
clone_without_resources(a, res) ==
    [anchor |-> a, resources |-> EmptyMap, panicked |-> FALSE]

\* AnchorHash::clone(): a copy of the anchor's vectors and of the map.
clone(a, res) == [anchor |-> a, resources |-> res, panicked |-> FALSE]

\* `twin` is the clone, `saved` the original as it was cloned.
CloneTake ==
    /\ ~panicked /\ trip = <<>>
    /\ twin' = clone(anchor, resources)
    /\ lastOp' = [op |-> "clone", arg |-> resources_len(resources), ret |-> "Ok"]
    /\ trip' = <<lastOp'>>
    /\ saved' = Snapshot
    /\ UNCHANGED <<binding, panicked, build_flags, counts, removals>>

Cloned == trip # <<>> /\ ~twin.panicked

\* The successful calls after the clone are counted, and at most MaxCloneOps made.
CountedAfterClone(field) ==
    /\ counts.added + counts.removed < MaxCloneOps
    /\ counts' = IF lastOp'.ret = "Ok"
                 THEN [counts EXCEPT ![field] = @ + 1]
                 ELSE counts

CloneOrigAdd ==
    /\ Cloned
    /\ \E r \in Resources : DoAddResource(r)
    /\ CountedAfterClone("added")
    /\ UNCHANGED <<saved, trip, twin, removals>>
CloneOrigRemove ==
    /\ Cloned
    /\ \E r \in Resources : DoRemoveResource(r)
    /\ CountedAfterClone("removed")
    /\ UNCHANGED <<saved, trip, twin, removals>>

\* A call on the clone: its outcome o becomes the clone's state.
OnClone(o, op, arg) ==
    /\ Cloned /\ ~panicked
    /\ TwinBecomes(o)
    /\ lastOp' = [op |-> op, arg |-> arg,
                  ret |-> IF o.panic THEN "Panic" ELSE o.ret]
    /\ UNCHANGED <<binding, panicked, build_flags, saved, trip, removals>>

CloneCopyAdd ==
    /\ \E r \in Resources :
         OnClone(add_resource(twin.anchor, twin.resources, r), "add_resource", r)
    /\ CountedAfterClone("added")
CloneCopyRemove ==
    /\ \E r \in Resources :
         \E o \in remove_resource(twin.anchor, twin.resources, r) :
             OnClone(o, "remove_resource", r)
    /\ CountedAfterClone("removed")

NextClone ==
    \/ TripFreeAdd \/ TripFreeRemove \/ CloneTake
    \/ CloneOrigAdd \/ CloneOrigRemove \/ CloneCopyAdd \/ CloneCopyRemove

SpecClone == Init /\ [][NextClone]_vars

\* ---- reuse: the calls, and a record of the buckets freed and not yet reused
\* The bucket a call unbound, and the bucket a call bound, read off the map.
Freed == (DOMAIN resources) \ (DOMAIN resources')
Taken == (DOMAIN resources') \ (DOMAIN resources)

Recorded ==
    /\ removals' = LET kept == SelectSeq(removals, LAMBDA b : b \notin Taken)
                   IN  IF Freed = {}
                       THEN kept
                       ELSE Append(kept, CHOOSE b \in Freed : TRUE)
    /\ UNCHANGED <<counts, saved, trip, twin>>

LifoAdd == \E r \in Resources : DoAddResource(r) /\ Recorded
LifoRemove == \E r \in Resources : DoRemoveResource(r) /\ Recorded

NextLifo == LifoAdd \/ LifoRemove

SpecLifo == Init /\ [][NextLifo]_vars

\* ---- the anchor alone: Anchor::new, then add_bucket, remove_bucket, get_bucket
\* Anchor::new(capacity, working) aborts when working > capacity.
InitAnchor ==
    /\ \E simd \in BOOLEAN : fasthash_of = fasthash_table(simd)
    /\ fastmod \in BOOLEAN
    /\ resources = EmptyMap
    /\ \E capacity \in 0..MaxCap, working \in 0..(MaxCap + 1) :
         /\ working <= capacity + 1
         /\ panicked = (working > capacity)
         /\ anchor = Anchor_new(capacity, IF working > capacity THEN 0 ELSE working)
         /\ lastOp = [op |-> "new", arg |-> <<capacity, working>>,
                      ret |-> IF working > capacity THEN "Panic" ELSE "Ok"]
    /\ NoCounts /\ NoTrip /\ NoTwin /\ NoRemovals

\* A call on the anchor: its outcome o becomes the state.
AnchorBecomes(o, op, arg) ==
    /\ panicked' = o.panic
    /\ anchor' = IF o.panic THEN anchor ELSE o.anchor
    /\ lastOp' = [op |-> op, arg |-> arg,
                  ret |-> IF o.panic THEN "Panic"
                          ELSE IF op = "add_bucket" THEN o.ret ELSE "Ok"]
    /\ UNCHANGED <<resources, build_flags, ghosts>>

AnchorAddBucket ==
    ~panicked /\ AnchorBecomes(add_bucket(anchor), "add_bucket", <<>>)

\* remove_bucket(b) for any u16 b the model has: a working bucket, a removed
\* one, or one past the capacity.
AnchorRemoveBucket ==
    /\ ~panicked
    /\ \E b \in 0..MaxCap :
         AnchorBecomes(remove_bucket(anchor, b), "remove_bucket", b)

AnchorGetBucket ==
    /\ ~panicked
    /\ \E key \in Keys :
         LET got == get_bucket(fasthash_of, fastmod, anchor, TruncU32(key))
         IN  /\ panicked' = (got.tag = "Panic")
             /\ lastOp' = [op |-> "get_bucket", arg |-> TruncU32(key), ret |-> got]
    /\ UNCHANGED <<binding, build_flags, ghosts>>

NextAnchor == AnchorAddBucket \/ AnchorRemoveBucket \/ AnchorGetBucket

SpecAnchor == InitAnchor /\ [][NextAnchor]_vars

\* ---- the anchor, with one remove_bucket followed at once by add_bucket
\* A call on the anchor that may be recorded: its outcome o becomes the state.
AnchorCall(o, op, arg) ==
    /\ panicked' = o.panic
    /\ anchor' = IF o.panic THEN anchor ELSE o.anchor
    /\ lastOp' = [op |-> op, arg |-> arg,
                  ret |-> IF o.panic THEN "Panic"
                          ELSE IF op = "add_bucket" THEN o.ret ELSE "Ok"]
    /\ UNCHANGED <<resources, build_flags>>

UndoFreeAdd == trip = <<>> /\ AnchorAddBucket
UndoFreeRemove == trip = <<>> /\ AnchorRemoveBucket

\* remove_bucket(b), with the anchor as it was before the call kept in `saved`.
UndoRemove ==
    /\ trip = <<>> /\ ~panicked
    /\ \E b \in 0..MaxCap :
         AnchorCall(remove_bucket(anchor, b), "remove_bucket", b)
    /\ saved' = Snapshot
    /\ trip' = <<lastOp'>>
    /\ UNCHANGED <<counts, twin, removals>>

\* add_bucket() as the next call after that remove_bucket.
UndoAdd ==
    /\ Len(trip) = 1 /\ ~panicked
    /\ AnchorCall(add_bucket(anchor), "add_bucket", <<>>)
    /\ trip' = Append(trip, lastOp')
    /\ UNCHANGED <<counts, saved, twin, removals>>

NextUndo == UndoFreeAdd \/ UndoFreeRemove \/ UndoRemove \/ UndoAdd

SpecUndo == InitAnchor /\ [][NextUndo]_vars

\* Where get_bucket can end when it stands at bucket b, whatever values the
\* bucket hash h_b(k) takes: each h in [0, A[b]) is tried at every removed b.
RECURSIVE get_bucket_ends(_, _)
get_bucket_ends(a, b) ==
    IF a.A[b] = 0
    THEN {[tag |-> "Found", id |-> b]}
    ELSE UNION { LET w == get_bucket_walk(a, h, a.A[b], FALSE, a.capacity)
                 IN  IF w.tag = "Diverges"
                     THEN {[tag |-> "Diverges"]}
                     ELSE get_bucket_ends(a, w.h)
                 : h \in 0..(a.A[b] - 1) }

\* ---- range_map alone: calls with u32 arguments from the edges of the range
LimbSamples ==
    (0..EdgeWidth) \cup ((2^15 - EdgeWidth)..(2^15 + EdgeWidth))
        \cup ((Limb - 1 - EdgeWidth)..(Limb - 1))
U32Samples == LimbSamples \X LimbSamples

InitRangeMap ==
    /\ anchor = Anchor_new(0, 0) /\ resources = EmptyMap
    /\ panicked = FALSE
    /\ fasthash_of = <<>>
    /\ fastmod \in BOOLEAN
    /\ \E v \in U32Samples, max \in U32Samples :
         lastOp = [op |-> "arguments", arg |-> <<v, max>>, ret |-> "None"]
    /\ NoCounts /\ NoTrip /\ NoTwin /\ NoRemovals

\* The call range_map(v, max) on the arguments drawn.
RangeMapCall ==
    /\ ~panicked /\ lastOp.op = "arguments"
    /\ \E got \in range_map_u32(fastmod, lastOp.arg[1], lastOp.arg[2]) :
         /\ lastOp' = [op |-> "range_map", arg |-> lastOp.arg, ret |-> got]
         /\ panicked' = (got = "Panic")
    /\ UNCHANGED <<binding, build_flags, ghosts>>

SpecRangeMap == InitRangeMap /\ [][RangeMapCall]_vars

\* ------------------------------------------------------------ properties
Stored(res) == {res[b] : b \in DOMAIN res}
WorkingBuckets(a) == {a.W[i] : i \in 0..(a.N - 1)}

\* What get_resource returns for key now, and in the binding b.
Lookup(key) == get_resource(fasthash_of, fastmod, anchor, resources, key)
LookupIn(b, key) == get_resource(fasthash_of, fastmod, b.anchor, b.resources, key)
\* What it returns after the step.
LookupNext(key) == get_resource(fasthash_of, fastmod, anchor', resources', key)

Returned(r) == [tag |-> "Some", val |-> r]
Absent == [tag |-> "None"]

\* The call that led to this state, by its name and outcome.
Called(op, ret) == lastOp.op = op /\ lastOp.ret = ret

\* C1: in a binding with capacity >= 1, for every key, get_resource returns
\* None exactly when the binding holds no resource, and otherwise returns a
\* resource the binding holds.
C1_LookupFindsStoredResource ==
    (~panicked /\ anchor.capacity >= 1) =>
        \A key \in Keys :
            /\ (Lookup(key) = Absent) <=> (resources = EmptyMap)
            /\ resources # EmptyMap =>
                   /\ Lookup(key).tag = "Some"
                   /\ Lookup(key).val \in Stored(resources)

\* C1 witness: with a resource removed and others left, a key whose first
\* slot is the removed bucket has been looked up and got a resource.
C1_Witness ==
    /\ lastOp.op = "get_resource"
    /\ lastOp.ret.tag = "Some"
    /\ 1 <= anchor.N /\ anchor.N < anchor.capacity
    /\ get_bucket(fasthash_of, fastmod, anchor, TruncU32(lastOp.arg)).tag = "Remapped"

\* C2 (as claimed): after a successful remove_resource(&r), a key's resource
\* differs from the one before the call exactly when that one was r.
C2_RemoveMovesExactlyKeysOfRemoved ==
    [][ (lastOp'.op = "remove_resource" /\ lastOp'.ret = "Ok") =>
            \A key \in Keys :
                (LookupNext(key) # Lookup(key)) <=> (Lookup(key) = Returned(lastOp'.arg))
      ]_vars

\* C3: after a successful add_resource(r), every key has the resource it had
\* before the call or has r.
C3_AddMovesKeysOnlyToAdded ==
    [][ (lastOp'.op = "add_resource" /\ lastOp'.ret = "Ok") =>
            \A key \in Keys :
                \/ LookupNext(key) = Lookup(key)
                \/ LookupNext(key) = Returned(lastOp'.arg)
      ]_vars

\* C3 witness: a resource was added to a binding that holds another, different
\* one, and keys map to both.
C3_Witness ==
    /\ Called("add_resource", "Ok")
    /\ \E key \in Keys : Lookup(key) = Returned(lastOp.arg)
    /\ \E key \in Keys : Lookup(key).tag = "Some" /\ Lookup(key).val # lastOp.arg

\* C4 (as claimed): a key that maps to r keeps mapping to r over every
\* add_resource or remove_resource call that is not a remove_resource that
\* removes r.
C4_StableUntilRemoved ==
    [][ lastOp'.op \in {"add_resource", "remove_resource"} =>
            \A key \in Keys :
                (/\ Lookup(key).tag = "Some"
                 /\ ~(/\ lastOp'.op = "remove_resource"
                      /\ lastOp'.ret = "Ok"
                      /\ lastOp'.arg = Lookup(key).val))
                => LookupNext(key) = Lookup(key)
      ]_vars

\* C4 (amended): a key that maps to r keeps mapping to r over every
\* add_resource or remove_resource call, except that a remove_resource that
\* removes r may move it anywhere and a successful add_resource may move it
\* to the resource added.
C4_StableUntilRemovedOrTakenByAdded ==
    [][ lastOp'.op \in {"add_resource", "remove_resource"} =>
            \A key \in Keys :
                LET before == Lookup(key)
                    after  == LookupNext(key)
                IN  before.tag = "Some" =>
                        \/ after = before
                        \/ /\ lastOp'.op = "remove_resource"
                           /\ lastOp'.ret = "Ok"
                           /\ lastOp'.arg = before.val
                        \/ /\ lastOp'.op = "add_resource"
                           /\ lastOp'.ret = "Ok"
                           /\ after = Returned(lastOp'.arg)
      ]_vars

\* C4 witness: a resource was removed and a key maps to a resource that stayed.
C4_Witness ==
    /\ Called("remove_resource", "Ok")
    /\ \E key \in Keys : Lookup(key).tag = "Some" /\ Lookup(key).val # lastOp.arg

\* C5: remove_resource(&r) of a stored r followed at once by add_resource(r)
\* succeeds and leaves every key with the resource it had before the removal.
C5_RemoveThenReAddRestores ==
    (/\ Len(trip) = 2
     /\ trip[1].op = "remove_resource" /\ trip[1].ret = "Ok"
     /\ trip[2].op = "add_resource")
    => /\ trip[2].ret = "Ok"
       /\ \A key \in Keys : Lookup(key) = LookupIn(saved, key)

\* C5 witness: a resource was removed and re-added in a binding that holds
\* another, different resource, and keys map to both.
C5_Witness ==
    /\ Len(trip) = 2
    /\ trip[1].op = "remove_resource" /\ trip[1].ret = "Ok"
    /\ trip[2].op = "add_resource" /\ trip[2].ret = "Ok"
    /\ \E key \in Keys : Lookup(key) = Returned(trip[1].arg)
    /\ \E key \in Keys : Lookup(key).tag = "Some" /\ Lookup(key).val # trip[1].arg

C7_AddFailsIffFull ==
    [][ lastOp'.op = "add_resource" =>
            /\ (anchor.N = anchor.capacity) <=> (anchor.R = <<>>)
            /\ IF anchor.N = anchor.capacity
               THEN /\ lastOp'.ret = "CapacityLimitReached"
                    /\ anchor' = anchor /\ resources' = resources
               ELSE /\ lastOp'.ret = "Ok"
                    /\ anchor'.R = SubSeq(anchor.R, 1, Len(anchor.R) - 1)
                    /\ anchor.R[Len(anchor.R)] \notin DOMAIN resources
                    /\ resources' = MapInsert(resources, anchor.R[Len(anchor.R)],
                                              lastOp'.arg)
      ]_vars

\* C7 witness: add_resource was refused by a binding that holds resources.
C7_Witness ==
    /\ Called("add_resource", "CapacityLimitReached")
    /\ anchor.N = anchor.capacity /\ anchor.capacity >= 2

\* C8: remove_resource(&r) returns ResourceNotFound exactly when no stored
\* resource equals r, and then leaves the anchor and the map as they were.
C8_RemoveFailsIffNotStored ==
    [][ lastOp'.op = "remove_resource" =>
            /\ (lastOp'.ret = "ResourceNotFound")
                   <=> (lastOp'.arg \notin Stored(resources))
            /\ lastOp'.ret = "ResourceNotFound" =>
                   anchor' = anchor /\ resources' = resources
      ]_vars

\* C8 witness: remove_resource did not find its resource in a binding that
\* holds other resources.
C8_Witness ==
    /\ Called("remove_resource", "ResourceNotFound")
    /\ resources # EmptyMap

\* C9 (as claimed): two bindings built with the same capacity, resources and
\* hasher, and given the same calls, return the same resource for every key.
C9_TwinsAgree ==
    \A key \in Keys : Lookup(key) = LookupIn(twin, key)

\* C10: resources().len() is the number of initial resources plus the
\* successful adds minus the successful removes, and is the anchor's N.
C10_LenCountsResources ==
    ~panicked =>
        /\ resources_len(resources)
               = counts.initial + counts.added - counts.removed
        /\ resources_len(resources) = anchor.N

\* C10 witness: resources were given to the build, added and removed.
C10_Witness ==
    /\ ~panicked
    /\ counts.initial >= 1 /\ counts.added >= 2 /\ counts.removed >= 2
    /\ resources_len(resources) >= 1

\* C11: a successful add_resource made while removed buckets are on record
\* binds its resource to the most recently removed of them, and to no other
\* bucket.
C11_AddReusesLastRemoved ==
    [][ (/\ lastOp'.op = "add_resource" /\ lastOp'.ret = "Ok"
         /\ removals # <<>>)
        => /\ Taken = {removals[Len(removals)]}
           /\ resources'[removals[Len(removals)]] = lastOp'.arg
           /\ removals' = SubSeq(removals, 1, Len(removals) - 1)
      ]_vars

\* C11 witness: after removals from two buckets, the lower one first, an
\* add_resource has bound its resource to the higher one; the lower is still
\* on record.
C11_Witness ==
    /\ Called("add_resource", "Ok")
    /\ removals # <<>>
    /\ \E b \in DOMAIN resources :
         /\ resources[b] = lastOp.arg
         /\ b > removals[Len(removals)]
         /\ b = anchor.W[anchor.N - 1]

\* C12: a clone maps every key as the original does when it is cloned; a later
\* add_resource or remove_resource on the original leaves the clone's result
\* for every key as it was, and one on the clone leaves the original's.
C12_CloneIsIndependent ==
    [][ /\ lastOp'.op = "clone" =>
            \A key \in Keys : LookupIn(twin', key) = Lookup(key)
        /\ (Cloned /\ binding' # binding) =>
            \A key \in Keys : LookupIn(twin', key) = LookupIn(twin, key)
        /\ (Cloned /\ twin' # twin) =>
            \A key \in Keys : LookupNext(key) = Lookup(key)
      ]_vars

\* C12 witness: after a clone, a resource was removed from the original; the
\* clone still maps a key to it and maps every key as the original did.
C12_Witness ==
    /\ Cloned
    /\ Called("remove_resource", "Ok")
    /\ lastOp.arg \notin Stored(resources)
    /\ \E key \in Keys : LookupIn(twin, key) = Returned(lastOp.arg)
    /\ \A key \in Keys : LookupIn(twin, key) = LookupIn(saved, key)

\* C13 (as claimed): on a binding built with capacity 0, get_resource returns
\* None and add_resource returns CapacityLimitReached, and neither aborts.
C13_ZeroCapacityIsHarmless ==
    (anchor.capacity = 0 /\ lastOp.op \in {"get_resource", "add_resource"}) =>
        /\ ~panicked
        /\ lastOp.op = "get_resource" => lastOp.ret = Absent
        /\ lastOp.op = "add_resource" => lastOp.ret = "CapacityLimitReached"

\* C14: build(capacity) with n <= capacity resources returns a binding with n
\* working buckets and n map entries, on exactly the working buckets, the
\* i-th resource (counting from 0) bound to bucket i.
C14_BuildBindsInOrder ==
    (lastOp.op = "build" /\ Len(lastOp.arg) <= anchor.capacity) =>
        /\ ~panicked
        /\ anchor.N = Len(lastOp.arg)
        /\ resources_len(resources) = Len(lastOp.arg)
        /\ DOMAIN resources = WorkingBuckets(anchor)
        /\ \A b \in WorkingBuckets(anchor) : anchor.A[b] = 0
        /\ \A i \in 1..Len(lastOp.arg) :
               (i - 1) \in DOMAIN resources /\ resources[i - 1] = lastOp.arg[i]

\* C14 witness: a build with several, different resources and capacity to spare.
C14_Witness ==
    /\ lastOp.op = "build" /\ ~panicked
    /\ Len(lastOp.arg) >= 2 /\ Len(lastOp.arg) < anchor.capacity
    /\ lastOp.arg[1] # lastOp.arg[2]

\* C15: build(capacity) aborts exactly when it is given more resources than
\* capacity, and otherwise binds every one of them.
C15_BuildAbortsOnExcess ==
    lastOp.op = "build" =>
        /\ panicked <=> (Len(lastOp.arg) > anchor.capacity)
        /\ ~panicked => resources_len(resources) = Len(lastOp.arg)

\* C15 witness: a build with capacity for some resources was given one more.
C15_Witness ==
    /\ lastOp.op = "build" /\ panicked
    /\ anchor.capacity >= 2 /\ Len(lastOp.arg) = anchor.capacity + 1

\* C16: for every u32 v and u32 max > 0, range_map(v, max) is a u32 below max
\* in both variants; the 64-bit product of the fastmod variant loses no carry;
\* and for a max that is a bucket count of the bindings above, the result is
\* the one their lookups use.
C16_RangeMapBelowMax ==
    (lastOp.op = "range_map" /\ lastOp.arg[2] # <<0, 0>>) =>
        LET v   == lastOp.arg[1]
            max == lastOp.arg[2]
            got == lastOp.ret
        IN  /\ ~panicked
            /\ got \in (0..(Limb - 1)) \X (0..(Limb - 1))
            /\ ~GeU32(got, max)
            /\ MulU32(v, max).carry = 0
            /\ (max[2] = 0 /\ max[1] < 2^15) =>
                   got = U32(range_map(fastmod, v, max[1]))

\* C16 witness: a call of the fastmod variant with both arguments above 2^31,
\* where the product needs all 64 bits, returned a value above 2^31.
C16_Witness ==
    /\ lastOp.op = "range_map" /\ fastmod
    /\ lastOp.arg[1][2] >= 2^15 /\ lastOp.arg[2][2] >= 2^15
    /\ lastOp.ret[2] >= 2^15

\* C18: after Anchor::new and any add_bucket and remove_bucket calls that leave
\* N >= 1, get_bucket(k) returns, for every key hash k, a working bucket: one
\* with A[b] = 0 that is among the first N entries of W.
C18_GetBucketReturnsWorking ==
    (~panicked /\ lastOp.op \in {"new", "add_bucket", "remove_bucket", "get_bucket"}
         /\ anchor.N >= 1) =>
        \A key \in Keys :
            LET got == get_bucket(fasthash_of, fastmod, anchor, TruncU32(key))
            IN  /\ got.tag \in {"Original", "Remapped"}
                /\ anchor.A[got.id] = 0
                /\ got.id \in WorkingBuckets(anchor)

\* C18 witness: with two buckets removed from the middle and two working, a
\* key was looked up and was remapped to a working bucket.
C18_Witness ==
    /\ lastOp.op = "get_bucket" /\ ~panicked
    /\ lastOp.ret.tag = "Remapped"
    /\ anchor.N >= 2 /\ anchor.N + 2 <= anchor.capacity
    /\ \E b \in 0..(anchor.N - 1) : anchor.A[b] # 0

\* C19: in every anchor state with capacity >= 1 reached from Anchor::new by
\* add_bucket and remove_bucket, N = 0 included, get_bucket ends from every
\* first slot and for every value of the bucket hash: each successor walk
\* reaches a bucket with A[h] < A[b] without visiting a bucket twice, and the
\* outer loop ends at a bucket with A[b] = 0; so it does for the keys' hashes.
C19_GetBucketTerminates ==
    (~panicked /\ lastOp.op \in {"new", "add_bucket", "remove_bucket", "get_bucket"}
         /\ anchor.capacity >= 1) =>
        /\ \A b \in 0..(anchor.capacity - 1) :
               \A e \in get_bucket_ends(anchor, b) :
                   e.tag = "Found" /\ anchor.A[e.id] = 0
        /\ \A key \in Keys :
               get_bucket(fasthash_of, fastmod, anchor, TruncU32(key)).tag
                   \in {"Original", "Remapped"}

\* C19 witness: every bucket has been removed (N = 0), the last of them not
\* bucket 0, and a lookup has ended.
C19_Witness ==
    /\ lastOp.op = "get_bucket" /\ ~panicked
    /\ anchor.N = 0 /\ anchor.capacity >= 3
    /\ anchor.A[0] # 0
    /\ lastOp.ret.tag \in {"Original", "Remapped"}

\* C20 (as claimed): get_resource never calls Anchor::get_bucket on an anchor
\* with N = 0. (get_resource leaves the anchor as it is, so N after the call
\* is N at the call.)
C20_NoLookupOnEmptyAnchor ==
    (/\ lastOp.op = "get_resource"
     /\ get_resource_calls_get_bucket(anchor, resources))
    => anchor.N > 0

\* The buckets that are not working: the ids below the capacity that are not
\* among the first N entries of W.
RemovedBuckets(a) == (0..(a.capacity - 1)) \ WorkingBuckets(a)

\* The top of the stack R: the bucket add_bucket would pop.
TopOfR(a) == a.R[Len(a.R)]

\* A state of the anchor after one of its operations has returned.
AfterAnchorOp ==
    ~panicked /\ lastOp.op \in {"new", "add_bucket", "remove_bucket", "get_bucket"}

\* C21 (as claimed): after new, add_bucket and remove_bucket, for every bucket
\* b in [0, capacity): A[b] = 0 if and only if b is one of the first N entries
\* of W.
C21_ZeroIffWorking ==
    AfterAnchorOp =>
        \A b \in 0..(anchor.capacity - 1) :
            (anchor.A[b] = 0) <=> (b \in WorkingBuckets(anchor))

\* C21 (amended): after new, add_bucket and remove_bucket, every working bucket
\* has A[b] = 0, and a bucket that is not working has A[b] = 0 exactly when
\* N = 0 and it is the top of R (bucket 0 after new(capacity, 0), the bucket
\* removed last otherwise).
C21_ZeroIffWorkingOrTopOfEmpty ==
    AfterAnchorOp =>
        \A b \in 0..(anchor.capacity - 1) :
            IF b \in WorkingBuckets(anchor)
            THEN anchor.A[b] = 0
            ELSE (anchor.A[b] = 0) <=> (anchor.N = 0 /\ b = TopOfR(anchor))

\* C21 witness: the last working bucket, which is not bucket 0, has been
\* removed; it has A[b] = 0 and no bucket is working.
C21_Witness ==
    /\ ~panicked /\ lastOp.op = "remove_bucket"
    /\ anchor.N = 0 /\ anchor.capacity >= 2
    /\ lastOp.arg # 0 /\ anchor.A[lastOp.arg] = 0
    /\ TopOfR(anchor) = lastOp.arg

\* The call that has just returned removed bucket b: remove_bucket(b) did not
\* abort.
JustRemoved(b) ==
    lastOp'.op = "remove_bucket" /\ ~panicked' /\ lastOp'.arg = b

\* Over one call, A[b] of a bucket b that is removed after it: the call that
\* removes b writes the N it leaves, and every other call keeps A[b] (b was
\* then removed before the call as well).
KeepsNOfRemoval ==
    (~panicked /\ ~panicked') =>
        \A b \in RemovedBuckets(anchor') :
            IF JustRemoved(b)
            THEN anchor'.A[b] = anchor'.N
            ELSE b \in RemovedBuckets(anchor) /\ anchor'.A[b] = anchor.A[b]

\* C22 (as claimed): after every operation of the anchor, every bucket b that
\* is not working has A[b] in [1, capacity - 1], and A[b] is the value N had
\* immediately after the most recent removal of b.
C22_RemovedHoldsPositiveNOfRemoval ==
    /\ [](AfterAnchorOp =>
            \A b \in RemovedBuckets(anchor) :
                anchor.A[b] \in 1..(anchor.capacity - 1))
    /\ [][KeepsNOfRemoval]_vars

\* C22 (amended): after every operation of the anchor, every bucket b that is
\* not working has A[b] in [0, capacity - 1], with A[b] = 0 only for the top of
\* R when N = 0; A[b] is the value N had immediately after the most recent
\* removal of b, and is b itself while b has not been working since new.
C22_RemovedHoldsNOfRemoval ==
    /\ [](AfterAnchorOp =>
            \A b \in RemovedBuckets(anchor) :
                /\ anchor.A[b] \in 0..(anchor.capacity - 1)
                /\ (anchor.A[b] = 0) => (anchor.N = 0 /\ b = TopOfR(anchor))
                /\ (lastOp.op = "new") => (anchor.A[b] = b))
    /\ [][KeepsNOfRemoval]_vars

\* C22 witness: a bucket was removed while an earlier removed bucket still
\* holds a larger N, that of its own removal; both are below the capacity and
\* neither is its own id.
C22_Witness ==
    /\ ~panicked /\ lastOp.op = "remove_bucket"
    /\ anchor.N >= 1
    /\ anchor.A[lastOp.arg] = anchor.N /\ anchor.A[lastOp.arg] # lastOp.arg
    /\ \E b \in RemovedBuckets(anchor) :
           /\ anchor.A[b] > anchor.N
           /\ anchor.A[b] # b

\* C23: after every operation of the anchor, 0 <= N <= capacity, the stack R
\* has capacity - N entries, no bucket is in R twice, and the entries of R are
\* the bucket ids that are not among the first N entries of W.
C23_RHoldsTheRemoved ==
    AfterAnchorOp =>
        /\ 0 <= anchor.N /\ anchor.N <= anchor.capacity
        /\ Len(anchor.R) = anchor.capacity - anchor.N
        /\ \A i, j \in 1..Len(anchor.R) :
               (i # j) => (anchor.R[i] # anchor.R[j])
        /\ {anchor.R[i] : i \in 1..Len(anchor.R)} = RemovedBuckets(anchor)

\* C23 witness: after removals and an add_bucket, R holds two or more buckets
\* that are not in the order new left them in, and a bucket is working.
C23_Witness ==
    /\ ~panicked /\ lastOp.op = "add_bucket" /\ lastOp.ret # None
    /\ anchor.N >= 1 /\ Len(anchor.R) >= 2
    /\ \E i \in 1..(Len(anchor.R) - 1) : anchor.R[i] < anchor.R[i + 1]

\* C24: after every operation of the anchor, every working bucket b (one of the
\* first N entries of W) has W[L[b]] = b, L[b] < N and K[b] = b; and so the
\* first N entries of W are pairwise distinct.
C24_WorkingAreWhereLSays ==
    AfterAnchorOp =>
        /\ \A b \in WorkingBuckets(anchor) :
               /\ anchor.L[b] < anchor.N
               /\ anchor.W[anchor.L[b]] = b
               /\ anchor.K[b] = b
        /\ \A i, j \in 0..(anchor.N - 1) :
               (i # j) => (anchor.W[i] # anchor.W[j])

\* C24 witness: after a removal from the middle, a working bucket stands in W
\* at a place that is not its id, and a removed bucket's K names it.
C24_Witness ==
    /\ ~panicked /\ lastOp.op = "remove_bucket"
    /\ anchor.N >= 2
    /\ \E b \in WorkingBuckets(anchor) :
           /\ anchor.L[b] # b
           /\ anchor.W[anchor.L[b]] = b
           /\ anchor.K[lastOp.arg] = b

\* C25: in every state of the binding, the keys of the map `resources` are the
\* working buckets of its anchor (the first N entries of W): bucket b has an
\* entry if and only if b is working.
C25_MapKeysAreWorkingBuckets ==
    ~panicked => (DOMAIN resources = WorkingBuckets(anchor))

\* C25 witness: after removals and an add_resource on a binding with room, the
\* map has two or more entries, a bucket below one of its keys has none and
\* is not working.
C25_Witness ==
    /\ ~panicked /\ lastOp.op = "add_resource" /\ lastOp.ret = "Ok"
    /\ resources_len(resources) >= 2 /\ anchor.N < anchor.capacity
    /\ \E b \in DOMAIN resources :
           \E c \in 0..(b - 1) :
               c \notin DOMAIN resources /\ c \notin WorkingBuckets(anchor)

\* C26: Anchor::new(cap, w) with w <= cap leaves N = w; the buckets 0..w-1
\* working, w of them, each with A[b] = 0; the buckets w..cap-1 removed, each
\* with A[b] = b; R, read from its top down, w, w+1, ..., cap-1; and
\* L[i] = W[i] = K[i] = i for every i.
C26_NewLaysOutTheAnchor ==
    (lastOp.op = "new" /\ lastOp.arg[2] <= lastOp.arg[1]) =>
        LET cap == lastOp.arg[1]
            w   == lastOp.arg[2]
        IN  /\ ~panicked
            /\ anchor.capacity = cap /\ anchor.N = w
            /\ WorkingBuckets(anchor) = 0..(w - 1)
            /\ Cardinality(WorkingBuckets(anchor)) = w
            /\ \A b \in 0..(w - 1) : anchor.A[b] = 0
            /\ RemovedBuckets(anchor) = w..(cap - 1)
            /\ \A b \in w..(cap - 1) : anchor.A[b] = b
            /\ Len(anchor.R) = cap - w
            /\ \A j \in 0..(cap - w - 1) : anchor.R[Len(anchor.R) - j] = w + j
            /\ DOMAIN anchor.A = 0..(cap - 1)
            /\ \A i \in 0..(cap - 1) :
                   anchor.L[i] = i /\ anchor.W[i] = i /\ anchor.K[i] = i

\* C26 witness: new(cap, w) has returned with a working bucket and two or more
\* removed ones.
C26_Witness ==
    /\ lastOp.op = "new" /\ ~panicked
    /\ lastOp.arg[2] >= 1 /\ lastOp.arg[2] + 2 <= lastOp.arg[1]
    /\ anchor.N = lastOp.arg[2] /\ Len(anchor.R) >= 2

\* C27: in every state of the anchor, N = 0 included, remove_bucket(b) aborts
\* for every bucket b below the capacity that is not working: the call does
\* not return, whichever state it is made in.
C27_RemoveOfRemovedAborts ==
    /\ [](AfterAnchorOp =>
            \A b \in RemovedBuckets(anchor) : remove_bucket(anchor, b).panic)
    /\ [][(/\ ~panicked
           /\ lastOp'.op = "remove_bucket"
           /\ lastOp'.arg \in RemovedBuckets(anchor)) => panicked']_vars

\* C27 witness: with no bucket working, remove_bucket was called on the bucket
\* whose A is 0, and aborted.
C27_Witness ==
    /\ panicked /\ lastOp.op = "remove_bucket"
    /\ anchor.N = 0 /\ lastOp.arg < anchor.capacity
    /\ anchor.A[lastOp.arg] = 0
    /\ lastOp.arg \in RemovedBuckets(anchor)

\* How many times the body of the inner loop of get_bucket runs from h, for a
\* removed bucket with A[b] = Ab: once for every h with A[h] >= Ab on the way.
RECURSIVE inner_loop_runs(_, _, _, _)
inner_loop_runs(a, h, Ab, left) ==
    IF a.A[h] >= Ab /\ left > 0
    THEN 1 + inner_loop_runs(a, a.K[h], Ab, left - 1)
    ELSE 0

\* How many times the body of the inner loop runs in the whole of
\* get_bucket(k), from the outer loop standing at bucket b.
RECURSIVE get_bucket_runs(_, _, _, _, _)
get_bucket_runs(hash, fm, a, k, b) ==
    IF a.A[b] > 0
    THEN LET h == range_map(fm, hash[<<b, k>>], a.A[b])
             w == get_bucket_walk(a, h, a.A[b], FALSE, a.capacity)
         IN  inner_loop_runs(a, h, a.A[b], a.capacity)
                 + (IF w.tag = "Diverges" THEN 0
                    ELSE get_bucket_runs(hash, fm, a, k, w.h))
    ELSE 0

\* C28: get_bucket(k) returns Remapped exactly when the key's first slot,
\* range_map(k, capacity), is a removed bucket and the body of the inner loop
\* ran at least once; in every other case it returns Original.
C28_RemappedIffInnerLoopRan ==
    (AfterAnchorOp /\ anchor.capacity >= 1) =>
        \A key \in Keys :
            LET k     == TruncU32(key)
                first == range_map(fastmod, k, anchor.capacity)
                runs  == get_bucket_runs(fasthash_of, fastmod, anchor, k, first)
                got   == get_bucket(fasthash_of, fastmod, anchor, k)
            IN  /\ got.tag \in {"Original", "Remapped"}
                /\ (got.tag = "Remapped")
                       <=> (first \in RemovedBuckets(anchor) /\ runs >= 1)
                /\ (lastOp.op = "get_bucket" /\ lastOp.arg = k)
                       => (lastOp.ret = got)

\* C28 witness: a lookup whose first slot was a removed bucket ended at another
\* bucket without the inner loop running, and returned Original.
C28_Witness ==
    /\ ~panicked /\ lastOp.op = "get_bucket"
    /\ lastOp.ret.tag = "Original"
    /\ range_map(fastmod, lastOp.arg, anchor.capacity) \in RemovedBuckets(anchor)
    /\ lastOp.ret.id # range_map(fastmod, lastOp.arg, anchor.capacity)

\* C29: in every state of the anchor and for every working bucket b,
\* remove_bucket(b) followed by add_bucket() returns Some(b) and leaves N and
\* all of A, R, W, K and L as they were before the removal.
C29_RemoveThenAddIsExactUndo ==
    /\ AfterAnchorOp =>
           \A b \in WorkingBuckets(anchor) :
               LET removed == remove_bucket(anchor, b)
               IN  /\ ~removed.panic
                   /\ add_bucket(removed.anchor)
                          = [panic |-> FALSE, anchor |-> anchor, ret |-> Some(b)]
    /\ (/\ Len(trip) = 2
        /\ trip[1].op = "remove_bucket"
        /\ trip[1].arg \in WorkingBuckets(saved.anchor))
       => /\ ~panicked
          /\ trip[1].ret = "Ok"
          /\ trip[2] = [op |-> "add_bucket", arg |-> <<>>, ret |-> Some(trip[1].arg)]
          /\ anchor.N = saved.anchor.N /\ anchor.A = saved.anchor.A
          /\ anchor.R = saved.anchor.R /\ anchor.W = saved.anchor.W
          /\ anchor.K = saved.anchor.K /\ anchor.L = saved.anchor.L

\* C29 witness: a working bucket that was neither the last of W nor the last
\* removed was removed from an anchor with other removed buckets, and
\* add_bucket has returned.
C29_Witness ==
    /\ Len(trip) = 2 /\ ~panicked
    /\ trip[1].op = "remove_bucket" /\ trip[1].ret = "Ok"
    /\ trip[2].op = "add_bucket"
    /\ anchor.N >= 2 /\ Len(anchor.R) >= 2
    /\ anchor.W[anchor.N - 1] # trip[1].arg
    /\ anchor.L[trip[1].arg] # trip[1].arg

\* C30: in every state of the anchor, the A values of the entries of R, read
\* from the top of the stack down, are N, N+1, ..., capacity-1: the entry i
\* places below the top has A = N + i. So the removed buckets have pairwise
\* distinct A values and the top of R has A = N.
C30_AOfRCountsUpFromN ==
    AfterAnchorOp =>
        /\ \A i \in 0..(Len(anchor.R) - 1) :
               anchor.A[anchor.R[Len(anchor.R) - i]] = anchor.N + i
        /\ Len(anchor.R) >= 1 =>
               /\ anchor.A[TopOfR(anchor)] = anchor.N
               /\ anchor.A[anchor.R[1]] = anchor.capacity - 1
        /\ \A b, c \in RemovedBuckets(anchor) :
               (b # c) => (anchor.A[b] # anchor.A[c])

\* C30 witness: after removals and an add_bucket, R holds three buckets that
\* are not in the order of their ids, with a bucket working.
C30_Witness ==
    /\ ~panicked /\ lastOp.op \in {"add_bucket", "remove_bucket"}
    /\ anchor.N >= 1 /\ Len(anchor.R) >= 3
    /\ \E i \in 1..(Len(anchor.R) - 1) : anchor.R[i] < anchor.R[i + 1]
    /\ \E b \in RemovedBuckets(anchor) : anchor.A[b] # b

\* ---- what the calls index and divide by
\* A use is an index into one of the vectors A, W, K, L, or the max handed to
\* range_map; it is safe when the index is below the capacity, the max above 0.
Use(what, at) == [what |-> what, at |-> at]
SafeUse(a, u) ==
    IF u.what = "max" THEN u.at > 0 ELSE u.at \in 0..(a.capacity - 1)

\* The uses of the inner loop of get_bucket from h: A[h] at every test, K[h] in
\* every run of the body. An index out of range ends the list, as it ends the
\* call.
RECURSIVE get_bucket_walk_uses(_, _, _, _)
get_bucket_walk_uses(a, h, Ab, left) ==
    IF h \notin 0..(a.capacity - 1)
    THEN {Use("A", h)}
    ELSE IF a.A[h] >= Ab /\ left > 0
    THEN {Use("A", h), Use("K", h)}
             \cup get_bucket_walk_uses(a, a.K[h], Ab, left - 1)
    ELSE {Use("A", h)}

\* The uses of the outer loop of get_bucket(k) standing at bucket b: A[b], and
\* for a removed b the max A[b] of range_map and the uses of the inner loop.
RECURSIVE get_bucket_loop_uses(_, _, _, _, _)
get_bucket_loop_uses(hash, fm, a, k, b) ==
    IF b \notin 0..(a.capacity - 1)
    THEN {Use("A", b)}
    ELSE IF a.A[b] > 0
    THEN LET h    == range_map(fm, hash[<<b, k>>], a.A[b])
             uses == get_bucket_walk_uses(a, h, a.A[b], a.capacity)
             w    == get_bucket_walk(a, h, a.A[b], FALSE, a.capacity)
         IN  {Use("A", b), Use("max", a.A[b])} \cup uses
                 \cup (IF \A u \in uses : SafeUse(a, u)
                       THEN IF w.tag = "Found"
                            THEN get_bucket_loop_uses(hash, fm, a, k, w.h)
                            ELSE {}
                       ELSE {})
    ELSE {Use("A", b)}

\* The uses of get_bucket(k): range_map(k, capacity) first, then the loops.
get_bucket_uses(hash, fm, a, k) ==
    {Use("max", a.capacity)}
        \cup (IF a.capacity > 0
              THEN get_bucket_loop_uses(hash, fm, a, k,
                                        range_map(fm, k, a.capacity))
              ELSE {})

\* The uses of add_bucket(): none when R is empty; otherwise A[b], W[N],
\* L[W[N]], L[b], W[L[b]] and K[b] for the popped b.
add_bucket_uses(a) ==
    IF a.R = <<>>
    THEN {}
    ELSE LET b  == a.R[Len(a.R)]
             in == 0..(a.capacity - 1)
         IN  {Use("A", b), Use("K", b), Use("L", b), Use("W", a.N)}
                 \cup (IF a.N \in in
                       THEN {Use("L", a.W[a.N])}
                                \cup (IF b \in in /\ a.W[a.N] \in in
                                      THEN {Use("W", [a.L EXCEPT ![a.W[a.N]] = a.N][b])}
                                      ELSE {})
                       ELSE {})

\* The uses of remove_bucket(b): A[b] in the assertion, then L[b], W[L[b]],
\* W[N], K[b] and L[W[N]] with N already decremented.
remove_bucket_uses(a, b) ==
    LET in == 0..(a.capacity - 1)
        N1 == a.N - 1
    IN  {Use("A", b)}
            \cup (IF b \in in /\ a.A[b] = 0
                  THEN {Use("L", b), Use("K", b), Use("W", N1), Use("W", a.L[b])}
                           \cup (IF N1 \in in /\ a.L[b] \in in
                                 THEN {Use("L", [a.W EXCEPT ![a.L[b]] = a.W[N1]][N1])}
                                 ELSE {})
                  ELSE {})

\* No call that can be made on the binding now aborts: each index is in range,
\* each max positive, N stays within [0, capacity], and both assertions hold.
NoCallAbortsNow ==
    /\ anchor.N \in 0..anchor.capacity
    /\ \A key \in Keys :
           /\ \A u \in get_bucket_uses(fasthash_of, fastmod, anchor, TruncU32(key)) :
                  SafeUse(anchor, u)
           /\ Lookup(key).tag \in {"Some", "None"}
    /\ \A u \in add_bucket_uses(anchor) : SafeUse(anchor, u)
    /\ anchor.R # <<>> =>
           /\ anchor.N + 1 <= anchor.capacity
           /\ TopOfR(anchor) \notin DOMAIN resources
    /\ \A r \in Resources :
           /\ ~add_resource(anchor, resources, r).panic
           /\ \A b \in find_resource(resources, r) :
                  /\ anchor.A[b] = 0
                  /\ anchor.N - 1 >= 0
                  /\ \A u \in remove_bucket_uses(anchor, b) : SafeUse(anchor, u)
           /\ \A o \in remove_resource(anchor, resources, r) : ~o.panic

\* C31: on a binding with capacity >= 1, no sequence of add_resource,
\* remove_resource and get_resource calls aborts: every index into A, W, K and
\* L is below the capacity, N stays within [0, capacity], range_map gets a
\* max > 0, the bucket add_resource gets is absent from the map, and
\* remove_bucket finds A[b] = 0.
C31_NoCallAborts ==
    /\ []((~panicked /\ anchor.capacity >= 1) => NoCallAbortsNow)
    /\ [][(~panicked /\ anchor.capacity >= 1) => ~panicked']_vars

\* C31 witness: every resource has been removed from a binding of capacity 2
\* or more, the last of them not from bucket 0, and a lookup has returned
\* None without aborting.
C31_Witness ==
    /\ ~panicked /\ lastOp.op = "get_resource"
    /\ lastOp.ret.tag = "None"
    /\ anchor.capacity >= 2 /\ anchor.N = 0
    /\ anchor.A[0] # 0

====
